---- MODULE Spec2Model ----
(***************************************************************************)
(* The piv-p256 recipient stanza of age-plugin-yubikey (src/format.rs):    *)
(* EphemeralKeyBytes, RecipientLine, its conversion into a Stanza,         *)
(* RecipientLine::from_stanza and RecipientLine::wrap_file_key.            *)
(*                                                                         *)
(* Byte strings are sequences of numbers 0..255 and stanza arguments are   *)
(* sequences of ASCII codes.  The sizes are the program's (4, 33, 32, 16). *)
(*                                                                         *)
(* What the program takes from other crates is modelled as follows.        *)
(*  - p256: a short Weierstrass curve y^2 = x^3 - 3x + b of prime order    *)
(*    over a prime field p = 3 (mod 4), as NIST P-256 is, with a field     *)
(*    small enough to enumerate (p = 7, b = 1, 5 points); a field element  *)
(*    is still serialised on 32 big-endian bytes, a point on 33 or 65.     *)
(*  - base64: the standard alphabet without padding, bit for bit; the      *)
(*    decoder rejects a last symbol with stray bits.                       *)
(*  - hkdf, aead_encrypt: ideal primitives.  Their output is the term of   *)
(*    their inputs, so two outputs are equal exactly when the inputs are;  *)
(*    the AEAD output has the length of the plaintext plus 16.  A stanza   *)
(*    body, which may hold such an output, is a record of its length and   *)
(*    its content.                                                         *)
(*  - OsRng: an entropy source that never yields the same secret twice.    *)
(*                                                                         *)
(* SpecWrap runs wrap_file_key, statement by statement, in concurrent      *)
(* threads, then turns each line into a stanza and parses it back.         *)
(* SpecParse runs from_stanza on stanzas read from a file.  SpecKeys runs  *)
(* the constructors of EphemeralKeyBytes and decompress.                   *)
(***************************************************************************)
EXTENDS Integers, Sequences, FiniteSets, TLC

\* ------------------------------------------------------------ constants

TAG_BYTES == 4

EPK_BYTES == 33

ENCRYPTED_FILE_KEY_BYTES == 32

\* b"piv-p256"
STANZA_KEY_LABEL == <<112, 105, 118, 45, 112, 50, 53, 54>>

\* crate::STANZA_TAG, the fixed tag string of this stanza variant
STANZA_TAG == "piv-p256"

\* age_core::format::FileKey is 16 bytes
FILE_KEY_BYTES == 16

\* the authentication tag aead_encrypt appends to the plaintext
AEAD_TAG_BYTES == 16

\* ---------------------------------------------------------------- bounds

\* threads that call wrap_file_key concurrently
NumThreads == 2

\* stanzas handed to from_stanza carry 0..MaxArgs arguments
MaxArgs == 3

\* ----------------------------------------------------------- Option<T>

None == [some |-> FALSE]

Some(v) == [some |-> TRUE, val |-> v]

\* ------------------------------------------------------------ the curve

\* the field prime (p = 3 mod 4, as for P-256)
FieldPrime == 7

\* a = -3 mod p
CurveA == 4

CurveB == 1

\* the (prime) order of the group of points
GroupOrder == 5

\* the point at infinity
Identity == <<>>

RECURSIVE PowMod(_, _)
PowMod(x, e) == IF e = 0 THEN 1 ELSE (x * PowMod(x, e - 1)) % FieldPrime

InvMod(x) == PowMod(x, FieldPrime - 2)

CurveRhs(x) == (x * x * x + CurveA * x + CurveB) % FieldPrime

\* the square root candidate alpha^((p+1)/4); a root exactly when its square is alpha
SqrtCandidate(alpha) == PowMod(alpha, (FieldPrime + 1) \div 4)

OnCurve(P) == /\ Len(P) = 2
              /\ P[1] \in 0..(FieldPrime - 1)
              /\ P[2] \in 0..(FieldPrime - 1)
              /\ (P[2] * P[2]) % FieldPrime = CurveRhs(P[1])

PointAdd(P, Q) ==
    IF P = Identity THEN Q
    ELSE IF Q = Identity THEN P
    ELSE IF P[1] = Q[1] /\ (P[2] + Q[2]) % FieldPrime = 0 THEN Identity
    ELSE LET lam == IF P = Q
                    THEN ((3 * P[1] * P[1] + CurveA) * InvMod((2 * P[2]) % FieldPrime)) % FieldPrime
                    ELSE ((Q[2] - P[2] + FieldPrime) * InvMod((Q[1] - P[1] + FieldPrime) % FieldPrime)) % FieldPrime
             x3 == (lam * lam + 2 * FieldPrime - P[1] - Q[1]) % FieldPrime
             y3 == (lam * (P[1] - x3 + FieldPrime) + FieldPrime - P[2]) % FieldPrime
         IN <<x3, y3>>

RECURSIVE ScalarMul(_, _)
ScalarMul(k, P) == IF k = 0 THEN Identity ELSE PointAdd(P, ScalarMul(k - 1, P))

\* the base point: the point of least x (and least y) on the curve
Generator ==
    LET xs == {x \in 0..(FieldPrime - 1) : \E y \in 0..(FieldPrime - 1) : OnCurve(<<x, y>>)}
        gx == CHOOSE x \in xs : \A z \in xs : x <= z
        gy == CHOOSE y \in 0..(FieldPrime - 1) :
                  OnCurve(<<gx, y>>) /\ \A z \in 0..(FieldPrime - 1) : OnCurve(<<gx, z>>) => y <= z
    IN <<gx, gy>>

\* NonZeroScalar: the secret keys
Scalars == 1..(GroupOrder - 1)

\* ------------------------------------------------------ SEC1 encodings

Zeros(n) == [i \in 1..n |-> 0]

\* a field element on EPK_BYTES - 1 big-endian bytes
FieldBytes(x) == Zeros(EPK_BYTES - 2) \o <<x>>

\* the field element a coordinate encodes, or -1 when the big-endian number is not below p
FieldFromBytes(bs) ==
    IF /\ \A i \in 1..(Len(bs) - 1) : bs[i] = 0
       /\ bs[Len(bs)] < FieldPrime
    THEN bs[Len(bs)]
    ELSE -1

\* the length SEC1 gives an encoding that starts with this tag byte; 0: no such tag
Sec1Len(tagbyte) ==
    CASE tagbyte = 0 -> 1
      [] tagbyte \in {2, 3, 5} -> EPK_BYTES
      [] tagbyte = 4 -> 2 * EPK_BYTES - 1
      [] OTHER -> 0

\* p256::EncodedPoint::from_bytes
EncodedPoint_from_bytes(bytes) ==
    IF Len(bytes) > 0 /\ Sec1Len(bytes[1]) = Len(bytes) THEN Some(bytes) ELSE None

is_compressed(encoded) == encoded[1] \in {2, 3}

\* PublicKey::to_encoded_point(compress)
to_encoded_point(P, compress) ==
    IF compress
    THEN <<2 + (P[2] % 2)>> \o FieldBytes(P[1])
    ELSE <<4>> \o FieldBytes(P[1]) \o FieldBytes(P[2])

\* EncodedPoint::decompress: the uncompressed encoding of the point a compressed
\* encoding names, when its x is a field element with a point on the curve; an
\* uncompressed encoding is returned as it is
EncodedPoint_decompress(encoded) ==
    IF Len(encoded) > 0 /\ encoded[1] = 4
    THEN Some(encoded)
    ELSE IF Len(encoded) = 0 \/ ~is_compressed(encoded) \/ Len(encoded) # EPK_BYTES
    THEN None
    ELSE LET x == FieldFromBytes(SubSeq(encoded, 2, Len(encoded)))
             beta == SqrtCandidate(CurveRhs(x))
             y == IF beta % 2 = encoded[1] % 2 THEN beta ELSE (FieldPrime - beta) % FieldPrime
         IN IF x >= 0 /\ (beta * beta) % FieldPrime = CurveRhs(x)
            THEN Some(to_encoded_point(<<x, y>>, FALSE))
            ELSE None

\* ------------------------------------------------------------- base64

\* faulty variant: the URL-safe alphabet ('-' and '_' for 62 and 63)
Base64Symbol_urlsafe(v) ==
    CASE v < 26 -> 65 + v
      [] v >= 26 /\ v < 52 -> 97 + (v - 26)
      [] v >= 52 /\ v < 62 -> 48 + (v - 52)
      [] v = 62 -> 45
      [] OTHER -> 95

\* the standard alphabet: the ASCII code of the symbol of a 6-bit value
Base64Symbol(v) ==
    CASE v < 26 -> 65 + v
      [] v >= 26 /\ v < 52 -> 97 + (v - 26)
      [] v >= 52 /\ v < 62 -> 48 + (v - 52)
      [] v = 62 -> 43
      [] OTHER -> 47

\* the 6-bit value of an ASCII code, -1 when it is no symbol of the alphabet
Base64Value(c) ==
    CASE c \in 65..90 -> c - 65
      [] c \in 97..122 -> c - 71
      [] c \in 48..57 -> c + 4
      [] c = 43 -> 62
      [] c = 47 -> 63
      [] OTHER -> -1

\* base64::encode_config(bytes, STANDARD_NO_PAD)
RECURSIVE encode_config(_)
encode_config(bytes) ==
    CASE Len(bytes) = 0 -> <<>>
      [] Len(bytes) = 1 ->
            <<Base64Symbol(bytes[1] \div 4), Base64Symbol((bytes[1] % 4) * 16)>>
      [] Len(bytes) = 2 ->
            <<Base64Symbol(bytes[1] \div 4),
              Base64Symbol((bytes[1] % 4) * 16 + bytes[2] \div 16),
              Base64Symbol((bytes[2] % 16) * 4)>>
      [] OTHER ->
            <<Base64Symbol(bytes[1] \div 4),
              Base64Symbol((bytes[1] % 4) * 16 + bytes[2] \div 16),
              Base64Symbol((bytes[2] % 16) * 4 + bytes[3] \div 64),
              Base64Symbol(bytes[3] % 64)>> \o encode_config(SubSeq(bytes, 4, Len(bytes)))

\* the bytes a sequence of 6-bit values carries (a last group of 2 or 3 values
\* carries 1 or 2 bytes; its remaining bits are dropped)
RECURSIVE DecodeValues(_)
DecodeValues(vs) ==
    CASE Len(vs) <= 1 -> <<>>
      [] Len(vs) = 2 -> <<vs[1] * 4 + vs[2] \div 16>>
      [] Len(vs) = 3 -> <<vs[1] * 4 + vs[2] \div 16, (vs[2] % 16) * 16 + vs[3] \div 4>>
      [] OTHER -> <<vs[1] * 4 + vs[2] \div 16,
                    (vs[2] % 16) * 16 + vs[3] \div 4,
                    (vs[3] % 4) * 64 + vs[4]>> \o DecodeValues(SubSeq(vs, 5, Len(vs)))

\* the bits of the last symbol that belong to no byte
TrailingBits(vs) ==
    CASE Len(vs) % 4 = 2 -> vs[Len(vs)] % 16
      [] Len(vs) % 4 = 3 -> vs[Len(vs)] % 4
      [] OTHER -> 0

\* base64::decode_config_slice(input, STANDARD_NO_PAD, buf) on a zeroed buffer of
\* buflen bytes: Ok with the buffer it wrote, Err on a length of 1 mod 4, a byte
\* outside the alphabet or a last symbol with stray bits; it panics when the
\* buffer is shorter than the decoded bytes.  (Inputs hold no '=' byte.)
decode_config_slice(input, buflen) ==
    LET vs == [i \in 1..Len(input) |-> Base64Value(input[i])]
    IN IF \/ Len(input) % 4 = 1
          \/ \E i \in 1..Len(vs) : vs[i] < 0
          \/ TrailingBits(vs) # 0
       THEN [kind |-> "Err", buf |-> Zeros(buflen)]
       ELSE LET out == DecodeValues(vs)
            IN IF Len(out) > buflen
               THEN [kind |-> "Panic", buf |-> Zeros(buflen)]
               ELSE [kind |-> "Ok", buf |-> out \o Zeros(buflen - Len(out))]

\* ------------------------------------------------- EphemeralKeyBytes

\* faulty variant: the encoding is accepted without decompressing it
from_bytes_unchecked(bytes) ==
    LET encoded == EncodedPoint_from_bytes(bytes)
    IN IF ~encoded.some
       THEN None
       ELSE IF is_compressed(encoded.val) THEN Some(encoded.val) ELSE None

\* EphemeralKeyBytes::from_bytes
from_bytes(bytes) ==
    LET encoded == EncodedPoint_from_bytes(bytes)
    IN IF ~encoded.some
       THEN None
       ELSE IF is_compressed(encoded.val) /\ EncodedPoint_decompress(encoded.val).some
            THEN Some(encoded.val)
            ELSE None

\* faulty variant: the public key is stored uncompressed
from_public_key_uncompressed(epk) == to_encoded_point(epk, FALSE)

\* EphemeralKeyBytes::from_public_key
from_public_key(epk) == to_encoded_point(epk, TRUE)

\* EphemeralKeyBytes::as_bytes
as_bytes(ekb) == ekb

\* EphemeralKeyBytes::decompress: the point, or a panic of the expect
decompress(ekb) ==
    LET d == EncodedPoint_decompress(ekb)
    IN IF d.some THEN [kind |-> "Ok", point |-> d.val] ELSE [kind |-> "Panic", point |-> <<>>]

\* ------------------------------------------------ RecipientLine, Stanza

RecipientLine(tag, epk_bytes, encrypted_file_key) ==
    [tag |-> tag, epk_bytes |-> epk_bytes, encrypted_file_key |-> encrypted_file_key]

Stanza(tag, args, body) == [tag |-> tag, args |-> args, body |-> body]

\* impl From<RecipientLine> for Stanza
Stanza_from(r) ==
    Stanza(STANZA_TAG,
           <<encode_config(r.tag), encode_config(as_bytes(r.epk_bytes))>>,
           r.encrypted_file_key)

\* a byte string whose content is given: the body of a stanza read from a file
RawBytes(bytes) == [len |-> Len(bytes), val |-> bytes]

\* faulty variant: the decoder runs before the length is looked at
base64_arg_decode_first(arg, buflen) ==
    LET r == decode_config_slice(arg, buflen)
    IN [out |-> IF r.kind = "Ok" /\ Len(arg) = ((4 * buflen) + 2) \div 3
                THEN Some(r.buf)
                ELSE None,
        decoded |-> TRUE,
        panic |-> FALSE]

\* faulty variant: the expected length is 4N/3 rounded down
base64_arg_floor(arg, buflen) ==
    IF Len(arg) # (4 * buflen) \div 3
    THEN [out |-> None, decoded |-> FALSE, panic |-> FALSE]
    ELSE LET r == decode_config_slice(arg, buflen)
         IN [out |-> IF r.kind = "Ok" THEN Some(r.buf) ELSE None,
             decoded |-> TRUE,
             panic |-> r.kind = "Panic"]

\* the nested fn base64_arg: the decoded buffer, and whether the decoder was called
base64_arg(arg, buflen) ==
    IF Len(arg) # ((4 * buflen) + 2) \div 3
    THEN [out |-> None, decoded |-> FALSE, panic |-> FALSE]
    ELSE LET r == decode_config_slice(arg, buflen)
         IN [out |-> IF r.kind = "Ok" THEN Some(r.buf) ELSE None,
             decoded |-> TRUE,
             panic |-> r.kind = "Panic"]

\* faulty variant: a longer body is cut to its first 32 bytes
body_try_into_prefix(body) ==
    IF body.len >= ENCRYPTED_FILE_KEY_BYTES
    THEN Some([len |-> ENCRYPTED_FILE_KEY_BYTES,
               val |-> SubSeq(body.val, 1, ENCRYPTED_FILE_KEY_BYTES)])
    ELSE None

\* body[..].try_into() to [u8; ENCRYPTED_FILE_KEY_BYTES]
body_try_into(body) == IF body.len = ENCRYPTED_FILE_KEY_BYTES THEN Some(body) ELSE None

\* the outcomes of from_stanza: None, Some(Err(())), Some(Ok(line)); a panic unwinds
NotMine == [kind |-> "None"]

Malformed == [kind |-> "SomeErr"]

Parsed(line) == [kind |-> "SomeOk", line |-> line]

Unwound == [kind |-> "Panic"]

\* the arm [tag, epk_bytes] of the match on s.args, followed by the final match
\* on (tag, epk_bytes, body): the return value and, per argument, whether the
\* base64 decoder ran on it.  The two base64_arg calls run in order, the second
\* only when the first returned.
match_pair(s) ==
    LET tag == base64_arg(s.args[1], TAG_BYTES)
        epk == IF tag.panic
               THEN [out |-> None, decoded |-> FALSE, panic |-> FALSE]
               ELSE base64_arg(s.args[2], EPK_BYTES)
        epk_bytes == IF epk.out.some THEN from_bytes(epk.out.val) ELSE None
        encrypted_file_key == body_try_into(s.body)
    IN [ret |-> IF tag.panic \/ epk.panic
                THEN Unwound
                ELSE IF tag.out.some /\ epk_bytes.some /\ encrypted_file_key.some
                THEN Parsed(RecipientLine(tag.out.val, epk_bytes.val,
                                          encrypted_file_key.val))
                ELSE Malformed,
        decoded |-> <<tag.decoded, epk.decoded>>]

\* faulty variant: arguments after the second are ignored
match_args_first_two(s) ==
    IF Len(s.args) < 2
    THEN [ret |-> Malformed, decoded |-> [i \in 1..Len(s.args) |-> FALSE]]
    ELSE LET r == match_pair([s EXCEPT !.args = SubSeq(s.args, 1, 2)])
         IN [ret |-> r.ret,
             decoded |-> r.decoded \o [i \in 1..(Len(s.args) - 2) |-> FALSE]]

\* the match on s.args: any argument list but [tag, epk_bytes] gives (None, None),
\* which the final match turns into Err whatever the body is
match_args(s) ==
    IF Len(s.args) # 2
    THEN [ret |-> Malformed, decoded |-> [i \in 1..Len(s.args) |-> FALSE]]
    ELSE match_pair(s)

\* faulty variant: the tag string is not looked at
from_stanza_any_tag(s) == match_args(s)

\* RecipientLine::from_stanza
from_stanza(s) ==
    IF s.tag # STANZA_TAG
    THEN [ret |-> NotMine, decoded |-> [i \in 1..Len(s.args) |-> FALSE]]
    ELSE match_args(s)

\* --------------------------------------------------------- collaborators

\* crate::p256::Recipient: a public key, a point of the curve other than the identity
Recipients == {ScalarMul(k, Generator) : k \in {2, 4}}

\* Recipient::public_key
Recipient_public_key(r) == r

\* Recipient::to_encoded: the canonical (compressed) encoding of the public key
Recipient_to_encoded(r) == to_encoded_point(r, TRUE)

\* Recipient::tag: four bytes that identify the recipient (a stand-in for the
\* truncated hash of its encoding: one tag per public key)
Recipient_tag(r) == <<200 + r[1], 255 - r[2], 16 * r[1] + r[2], 251>>

\* FileKey values: 0x00..0x0F and sixteen 0xFF bytes
FileKeys == {[i \in 1..FILE_KEY_BYTES |-> i - 1], [i \in 1..FILE_KEY_BYTES |-> 255]}

\* EphemeralSecret::public_key
public_key(esk) == ScalarMul(esk, Generator)

\* EphemeralSecret::diffie_hellman followed by SharedSecret::as_bytes: the
\* x-coordinate of esk * pk
diffie_hellman(esk, point) == FieldBytes(ScalarMul(esk, point)[1])

\* age_core::primitives::hkdf, an ideal key derivation: the key of (salt, label, ikm)
hkdf(salt, label, ikm) == [salt |-> salt, info |-> label, ikm |-> ikm]

\* age_core::primitives::aead_encrypt, an ideal AEAD under the implicit nonce:
\* plaintext length + 16 bytes that name (key, plaintext)
aead_encrypt(key, plaintext) ==
    [len |-> Len(plaintext) + AEAD_TAG_BYTES, val |-> <<key, plaintext>>]

\* [0; ENCRYPTED_FILE_KEY_BYTES].copy_from_slice(src) panics on another length
copy_from_slice(src) == IF src.len = ENCRYPTED_FILE_KEY_BYTES THEN Some(src) ELSE None

\* ----------------------------------------------------------------- state

Threads == 1..NumThreads

VARIABLES
    file_key,        \* wrap_file_key's argument file_key
    pk,              \* wrap_file_key's argument pk
    osrng,           \* the secrets OsRng has handed out
    aead_calls,      \* the aead_encrypt calls made: by which call, with which key and plaintext
    pc,              \* per thread: the statement of wrap_file_key it has completed
    esk,             \* per thread: the locals of wrap_file_key
    epk_bytes,
    shared_secret,
    salt,
    enc_key,
    encrypted_file_key,
    line,            \* per thread: the RecipientLine wrap_file_key returned
    wire,            \* per thread: the Stanza made of line
    reparsed,        \* per thread: from_stanza(wire)
    stanza_in,       \* the stanza of the last from_stanza call on a file's stanza
    parse_out,       \* its return value
    decode_log,      \* per argument of stanza_in: did the base64 decoder run on it
    ekb_in,          \* the argument of the last EphemeralKeyBytes constructor call
    ekb,             \* the Option<EphemeralKeyBytes> it returned
    ekb_point        \* what decompress() of that value gave

wrap_vars == <<file_key, pk, osrng, aead_calls, pc, esk, epk_bytes, shared_secret,
               salt, enc_key, encrypted_file_key, line, wire, reparsed>>

parse_vars == <<stanza_in, parse_out, decode_log>>

key_vars == <<ekb_in, ekb, ekb_point>>

vars == <<wrap_vars, parse_vars, key_vars>>

NoBytes == <<>>

NoKey == hkdf(NoBytes, NoBytes, NoBytes)

NoLine == RecipientLine(NoBytes, NoBytes, RawBytes(NoBytes))

NoStanza == Stanza("", <<>>, RawBytes(NoBytes))

NotCalled == [kind |-> "NotCalled"]

Init ==
    /\ file_key \in FileKeys
    /\ pk \in Recipients
    /\ osrng = {}
    /\ aead_calls = {}
    /\ pc = [t \in Threads |-> "idle"]
    /\ esk = [t \in Threads |-> 0]
    /\ epk_bytes = [t \in Threads |-> NoBytes]
    /\ shared_secret = [t \in Threads |-> NoBytes]
    /\ salt = [t \in Threads |-> NoBytes]
    /\ enc_key = [t \in Threads |-> NoKey]
    /\ encrypted_file_key = [t \in Threads |-> RawBytes(NoBytes)]
    /\ line = [t \in Threads |-> NoLine]
    /\ wire = [t \in Threads |-> NoStanza]
    /\ reparsed = [t \in Threads |-> NotCalled]
    /\ stanza_in = NoStanza
    /\ parse_out = NotCalled
    /\ decode_log = <<>>
    /\ ekb_in = NoBytes
    /\ ekb = None
    /\ ekb_point = NotCalled

\* ------------------------------------------------------- wrap_file_key

\* faulty variant: the ephemeral secret is drawn once and kept for the later calls
KeyGen_cached(t) ==
    /\ pc[t] = "idle"
    /\ \E k \in (IF osrng = {} THEN Scalars ELSE osrng) :
          /\ osrng' = osrng \cup {k}
          /\ esk' = [esk EXCEPT ![t] = k]
          /\ epk_bytes' = [epk_bytes EXCEPT ![t] = from_public_key(public_key(k))]
    /\ pc' = [pc EXCEPT ![t] = "keygen"]
    /\ UNCHANGED <<file_key, pk, aead_calls, shared_secret, salt, enc_key,
                   encrypted_file_key, line, wire, reparsed, parse_vars, key_vars>>

\* let esk = EphemeralSecret::random(OsRng); let epk = esk.public_key();
\* let epk_bytes = EphemeralKeyBytes::from_public_key(&epk);
KeyGen(t) ==
    /\ pc[t] = "idle"
    /\ \E k \in Scalars \ osrng :
          /\ osrng' = osrng \cup {k}
          /\ esk' = [esk EXCEPT ![t] = k]
          /\ epk_bytes' = [epk_bytes EXCEPT ![t] = from_public_key(public_key(k))]
    /\ pc' = [pc EXCEPT ![t] = "keygen"]
    /\ UNCHANGED <<file_key, pk, aead_calls, shared_secret, salt, enc_key,
                   encrypted_file_key, line, wire, reparsed, parse_vars, key_vars>>

\* let shared_secret = esk.diffie_hellman(pk.public_key());
Ecdh(t) ==
    /\ pc[t] = "keygen"
    /\ shared_secret' = [shared_secret EXCEPT
                            ![t] = diffie_hellman(esk[t], Recipient_public_key(pk))]
    /\ pc' = [pc EXCEPT ![t] = "ecdh"]
    /\ UNCHANGED <<file_key, pk, osrng, aead_calls, esk, epk_bytes, salt, enc_key,
                   encrypted_file_key, line, wire, reparsed, parse_vars, key_vars>>

\* faulty variant: the salt is built recipient first
Salt_swapped(t) ==
    /\ pc[t] = "ecdh"
    /\ salt' = [salt EXCEPT ![t] = Recipient_to_encoded(pk) \o as_bytes(epk_bytes[t])]
    /\ pc' = [pc EXCEPT ![t] = "salt"]
    /\ UNCHANGED <<file_key, pk, osrng, aead_calls, esk, epk_bytes, shared_secret,
                   enc_key, encrypted_file_key, line, wire, reparsed, parse_vars,
                   key_vars>>

\* salt.extend_from_slice(epk_bytes.as_bytes());
\* salt.extend_from_slice(pk.to_encoded().as_bytes());
Salt(t) ==
    /\ pc[t] = "ecdh"
    /\ salt' = [salt EXCEPT ![t] = as_bytes(epk_bytes[t]) \o Recipient_to_encoded(pk)]
    /\ pc' = [pc EXCEPT ![t] = "salt"]
    /\ UNCHANGED <<file_key, pk, osrng, aead_calls, esk, epk_bytes, shared_secret,
                   enc_key, encrypted_file_key, line, wire, reparsed, parse_vars,
                   key_vars>>

\* let enc_key = hkdf(&salt, STANZA_KEY_LABEL, shared_secret.as_bytes());
Hkdf(t) ==
    /\ pc[t] = "salt"
    /\ enc_key' = [enc_key EXCEPT ![t] = hkdf(salt[t], STANZA_KEY_LABEL, shared_secret[t])]
    /\ pc' = [pc EXCEPT ![t] = "hkdf"]
    /\ UNCHANGED <<file_key, pk, osrng, aead_calls, esk, epk_bytes, shared_secret,
                   salt, encrypted_file_key, line, wire, reparsed, parse_vars, key_vars>>

\* key.copy_from_slice(&aead_encrypt(&enc_key, file_key.expose_secret()));
Aead(t) ==
    /\ pc[t] = "hkdf"
    /\ aead_calls' = aead_calls \cup {[by |-> t, key |-> enc_key[t], plaintext |-> file_key]}
    /\ LET key == copy_from_slice(aead_encrypt(enc_key[t], file_key))
       IN IF key.some
          THEN /\ encrypted_file_key' = [encrypted_file_key EXCEPT ![t] = key.val]
               /\ pc' = [pc EXCEPT ![t] = "aead"]
          ELSE /\ UNCHANGED encrypted_file_key
               /\ pc' = [pc EXCEPT ![t] = "panic"]
    /\ UNCHANGED <<file_key, pk, osrng, esk, epk_bytes, shared_secret, salt, enc_key,
                   line, wire, reparsed, parse_vars, key_vars>>

\* RecipientLine { tag: pk.tag(), epk_bytes, encrypted_file_key }
Return(t) ==
    /\ pc[t] = "aead"
    /\ line' = [line EXCEPT ![t] = RecipientLine(Recipient_tag(pk), epk_bytes[t],
                                                 encrypted_file_key[t])]
    /\ pc' = [pc EXCEPT ![t] = "returned"]
    /\ UNCHANGED <<file_key, pk, osrng, aead_calls, esk, epk_bytes, shared_secret,
                   salt, enc_key, encrypted_file_key, wire, reparsed, parse_vars,
                   key_vars>>

\* Stanza::from(line)
IntoStanza(t) ==
    /\ pc[t] = "returned"
    /\ wire' = [wire EXCEPT ![t] = Stanza_from(line[t])]
    /\ pc' = [pc EXCEPT ![t] = "stanza"]
    /\ UNCHANGED <<file_key, pk, osrng, aead_calls, esk, epk_bytes, shared_secret,
                   salt, enc_key, encrypted_file_key, line, reparsed, parse_vars,
                   key_vars>>

\* RecipientLine::from_stanza(&stanza) on the stanza just made
Reparse(t) ==
    /\ pc[t] = "stanza"
    /\ reparsed' = [reparsed EXCEPT ![t] = from_stanza(wire[t]).ret]
    /\ pc' = [pc EXCEPT ![t] = "parsed"]
    /\ UNCHANGED <<file_key, pk, osrng, aead_calls, esk, epk_bytes, shared_secret,
                   salt, enc_key, encrypted_file_key, line, wire, parse_vars, key_vars>>

NextWrap ==
    \E t \in Threads :
        \/ KeyGen(t)
        \/ Ecdh(t)
        \/ Salt(t)
        \/ Hkdf(t)
        \/ Aead(t)
        \/ Return(t)
        \/ IntoStanza(t)
        \/ Reparse(t)

SpecWrap == Init /\ [][NextWrap]_vars

\* --------------------------------------------------------- Stanza inputs

\* 33-byte strings a file may carry as an ephemeral point: every format byte
\* 0..5, a most significant coordinate byte of 0 or 1, and every least
\* significant byte 0..p (p and the bytes above the field included via the high byte)
UntrustedPoints ==
    {<<f, h>> \o Zeros(EPK_BYTES - 3) \o <<x>> :
        f \in 0..5, h \in 0..1, x \in 0..FieldPrime}

\* first arguments: encoded tags, a last symbol with stray bits, a byte outside
\* the alphabet ('!', 33), and lengths 0, 5, 7 and 8
TagArgs ==
    {encode_config(Recipient_tag(r)) : r \in Recipients}
    \cup {encode_config(<<0, 0, 0, 0>>),
          <<65, 65, 65, 65, 65, 66>>,
          <<65, 65, 33, 65, 65, 65>>,
          <<>>,
          <<65, 65, 65, 65, 65>>,
          <<65, 65, 65, 65, 65, 65, 65>>,
          encode_config(<<1, 2, 3, 4, 5, 6>>)}

\* second arguments: the encodings of the 33-byte strings, a byte outside the
\* alphabet, and lengths 43, 45 and 6
EpkArgs ==
    {encode_config(b) : b \in UntrustedPoints}
    \cup {[i \in 1..44 |-> IF i = 9 THEN 33 ELSE 65],
          [i \in 1..43 |-> 65],
          encode_config(<<2>> \o Zeros(EPK_BYTES - 2) \o <<2, 0>>),
          encode_config(Recipient_tag(Generator))}

\* argument lists of 0..MaxArgs arguments
ArgLists ==
    {<<>>}
    \cup {<<a>> : a \in TagArgs}
    \cup {<<a, e>> : a \in TagArgs, e \in EpkArgs}
    \cup {<<e, a>> : a \in {encode_config(Recipient_tag(Generator))},
                     e \in {encode_config(to_encoded_point(Generator, TRUE))}}
    \cup UNION {{<<encode_config(Recipient_tag(Generator)),
                   encode_config(to_encoded_point(Generator, TRUE))>>
                 \o [i \in 1..(n - 2) |-> x] : x \in {<<>>, <<65>>}} : n \in 3..MaxArgs}

\* bodies of 0, 31, 32 and 33 bytes
Bodies == {RawBytes([i \in 1..n |-> (7 * i) % 256]) : n \in {0, 31, 32, 33}}

StanzaTags == {STANZA_TAG, "X25519", "piv-p256 ", ""}

UntrustedStanzas ==
    {Stanza(tag, args, body) : tag \in StanzaTags, args \in ArgLists, body \in Bodies}

\* ----------------------------------------------- from_stanza on a file

\* RecipientLine::from_stanza(&s) for a stanza s read from a file (one call a run)
FromStanza ==
    /\ parse_out = NotCalled
    /\ \E s \in UntrustedStanzas :
          LET r == from_stanza(s)
          IN /\ stanza_in' = s
             /\ parse_out' = r.ret
             /\ decode_log' = r.decoded
    /\ UNCHANGED <<wrap_vars, key_vars>>

\* epk_bytes.decompress() on the line from_stanza returned
DecompressParsed ==
    /\ parse_out.kind = "SomeOk"
    /\ ekb_point = NotCalled
    /\ ekb_in' = as_bytes(parse_out.line.epk_bytes)
    /\ ekb' = Some(parse_out.line.epk_bytes)
    /\ ekb_point' = decompress(parse_out.line.epk_bytes)
    /\ UNCHANGED <<wrap_vars, parse_vars>>

NextParse ==
    \/ FromStanza
    \/ DecompressParsed

SpecParse == Init /\ [][NextParse]_vars

\* ------------------------------------------- EphemeralKeyBytes on its own

\* EphemeralKeyBytes::from_bytes(bytes)
KeyFromBytes(bytes) ==
    /\ ekb_in' = bytes
    /\ ekb' = from_bytes(bytes)
    /\ ekb_point' = NotCalled
    /\ UNCHANGED <<wrap_vars, parse_vars>>

\* EphemeralKeyBytes::from_public_key(&EphemeralSecret::random(OsRng).public_key())
KeyFromPublicKey(k) ==
    /\ ekb_in' = to_encoded_point(public_key(k), FALSE)
    /\ ekb' = Some(from_public_key(public_key(k)))
    /\ ekb_point' = NotCalled
    /\ UNCHANGED <<wrap_vars, parse_vars>>

\* ekb.decompress()
KeyDecompress ==
    /\ ekb.some
    /\ ekb_point' = decompress(ekb.val)
    /\ UNCHANGED <<wrap_vars, parse_vars, ekb_in, ekb>>

NextKeys ==
    \/ \E bytes \in UntrustedPoints : KeyFromBytes(bytes)
    \/ \E k \in Scalars : KeyFromPublicKey(k)
    \/ KeyDecompress

SpecKeys == Init /\ [][NextKeys]_vars

Next == NextWrap \/ NextParse \/ NextKeys

Spec == Init /\ [][Next]_vars

\* ============================================================== claims

\* -------- what the claims speak of, stated apart from the operators above

\* the affine points of the curve
CurvePoints ==
    {P \in (0..(FieldPrime - 1)) \X (0..(FieldPrime - 1)) :
        (P[2] * P[2]) % FieldPrime = (P[1] * P[1] * P[1] + CurveA * P[1] + CurveB) % FieldPrime}

\* the compressed SEC1 encodings of the points of the curve: 02 or 03 by the
\* parity of y, then x on 32 big-endian bytes
ValidCompressedPoints ==
    {<<IF P[2] % 2 = 0 THEN 2 ELSE 3>> \o [i \in 1..(EPK_BYTES - 1) |->
                                              IF i = EPK_BYTES - 1 THEN P[1] ELSE 0] :
        P \in CurvePoints}

\* "ABCDEFGHIJKLMNOPQRSTUVWXYZabcdefghijklmnopqrstuvwxyz0123456789+/"
StandardAlphabet ==
    <<
      65, 66, 67, 68, 69, 70, 71, 72, 73, 74, 75, 76, 77, 78, 79, 80, 81,
      82, 83, 84, 85, 86, 87, 88, 89, 90, 97, 98, 99, 100, 101, 102, 103,
      104, 105, 106, 107, 108, 109, 110, 111, 112, 113, 114, 115, 116, 117,
      118, 119, 120, 121, 122, 48, 49, 50, 51, 52, 53, 54, 55, 56, 57, 43,
      47
    >>

AlphabetIndex(c) == CHOOSE i \in 1..64 : StandardAlphabet[i] = c

InAlphabet(c) == \E i \in 1..64 : StandardAlphabet[i] = c

\* bit number j (1 is the most significant) of the w-bit number n
BitOf(n, w, j) == (n \div (2 ^ (w - j))) % 2

\* bit number j of a byte string
ByteStringBit(bytes, j) == BitOf(bytes[((j - 1) \div 8) + 1], 8, ((j - 1) % 8) + 1)

\* bit number j of a string of base64 symbols
SymbolStringBit(arg, j) ==
    BitOf(AlphabetIndex(arg[((j - 1) \div 6) + 1]) - 1, 6, ((j - 1) % 6) + 1)

\* the 6-bit group number i of a byte string, zero bits after its end
SixBits(bytes, i) ==
    LET q == 6 * (i - 1)
        k == (q \div 8) + 1
        hi == bytes[k]
        lo == IF k + 1 <= Len(bytes) THEN bytes[k + 1] ELSE 0
    IN ((256 * hi + lo) \div (2 ^ (10 - (q % 8)))) % 64

\* arg is the unpadded standard-alphabet base64 text of bytes: one symbol for
\* every 6 bits, no more
IsBase64Of(arg, bytes) ==
    /\ 6 * Len(arg) >= 8 * Len(bytes)
    /\ 6 * Len(arg) < 8 * Len(bytes) + 6
    /\ \A i \in 1..Len(arg) :
          InAlphabet(arg[i]) /\ AlphabetIndex(arg[i]) - 1 = SixBits(bytes, i)

\* the n bytes a canonical base64 text of n bytes carries
BytesOfText(arg, n) ==
    [k \in 1..n |->
        LET b(j) == SymbolStringBit(arg, 8 * (k - 1) + j)
        IN 128 * b(1) + 64 * b(2) + 32 * b(3) + 16 * b(4) + 8 * b(5) + 4 * b(6) + 2 * b(7) + b(8)]

\* arg is the canonical unpadded base64 text of some n bytes
IsCanonicalText(arg, n) ==
    /\ 6 * Len(arg) >= 8 * n
    /\ 6 * Len(arg) < 8 * n + 6
    /\ \A i \in 1..Len(arg) : InAlphabet(arg[i])
    /\ \A j \in (8 * n + 1)..(6 * Len(arg)) : SymbolStringBit(arg, j) = 0

\* the gates of the decode direction
GateArgCount(s) == Len(s.args) = 2

GateTagArg(s) == IsCanonicalText(s.args[1], 4)

GateEpkArg(s) ==
    /\ IsCanonicalText(s.args[2], 33)
    /\ BytesOfText(s.args[2], 33) \in ValidCompressedPoints

GateBody(s) == s.body.len = 32

AllGates(s) == GateArgCount(s) /\ GateTagArg(s) /\ GateEpkArg(s) /\ GateBody(s)

Called == parse_out # NotCalled

\* -------- C1
\* C1: from_stanza returns not-mine (None) for every stanza whose tag string is
\* not STANZA_TAG, whatever its arguments and body are.
C1_TagMismatchIsNotMine ==
    (Called /\ stanza_in.tag # STANZA_TAG) => parse_out.kind = "None"

\* a stanza with another tag whose arguments and body pass every gate
C1_Witness ==
    /\ Called
    /\ stanza_in.tag # STANZA_TAG
    /\ AllGates(stanza_in)
    /\ parse_out.kind = "None"

C3_BodyLength ==
    (Called /\ stanza_in.tag = STANZA_TAG) =>
        /\ stanza_in.body.len # 32 => parse_out.kind = "SomeErr"
        /\ parse_out.kind = "SomeOk" =>
              /\ stanza_in.body.len = 32
              /\ Len(stanza_in.body.val) = 32
              /\ parse_out.line.encrypted_file_key = stanza_in.body

\* two valid arguments and a body of 33 bytes: malformed
C3_Witness ==
    /\ Called
    /\ stanza_in.tag = STANZA_TAG
    /\ GateArgCount(stanza_in)
    /\ GateTagArg(stanza_in)
    /\ GateEpkArg(stanza_in)
    /\ stanza_in.body.len = 33
    /\ parse_out.kind = "SomeErr"

\* -------- C4
\* C4: the base64 decoder runs on an argument only after its length check
\* passed: an argument whose length is not (4N+2)/3 (6 for the 4-byte tag, 44 for
\* the 33-byte point) is rejected without a decoder call, too short or too long,
\* and the stanza is malformed.
C4_LengthBeforeDecode ==
    /\ (4 * TAG_BYTES + 2) \div 3 = 6
    /\ (4 * EPK_BYTES + 2) \div 3 = 44
    /\ (Called /\ stanza_in.tag = STANZA_TAG /\ Len(stanza_in.args) = 2) =>
          /\ Len(stanza_in.args[1]) # 6 => (~decode_log[1] /\ parse_out.kind = "SomeErr")
          /\ Len(stanza_in.args[2]) # 44 => (~decode_log[2] /\ parse_out.kind = "SomeErr")
    /\ Called => \A i \in 1..Len(decode_log) :
                    decode_log[i] => Len(stanza_in.args[i]) = IF i = 1 THEN 6 ELSE 44

\* a too long first argument and a too short second one: no decoder call
C4_Witness ==
    /\ Called
    /\ stanza_in.tag = STANZA_TAG
    /\ Len(stanza_in.args) = 2
    /\ Len(stanza_in.args[1]) > 6
    /\ Len(stanza_in.args[2]) < 44
    /\ Len(stanza_in.args[2]) > 0
    /\ decode_log = <<FALSE, FALSE>>
    /\ parse_out.kind = "SomeErr"

\* -------- C5
\* C5: matching tag, two arguments, 32-byte body: a second argument of 44
\* characters that decodes to 33 bytes which are no compressed SEC1 encoding of a
\* point of the curve makes from_stanza return malformed, never a Recipient Line.
C5_InvalidPointIsMalformed ==
    (/\ Called
     /\ stanza_in.tag = STANZA_TAG
     /\ Len(stanza_in.args) = 2
     /\ stanza_in.body.len = 32
     /\ IsCanonicalText(stanza_in.args[2], 33)
     /\ BytesOfText(stanza_in.args[2], 33) \notin ValidCompressedPoints)
    => parse_out.kind = "SomeErr"

\* a valid first argument, and a second one that is 02 or 03 followed by an x
\* of the field with no point on the curve
C5_Witness ==
    /\ Called
    /\ stanza_in.tag = STANZA_TAG
    /\ Len(stanza_in.args) = 2
    /\ GateTagArg(stanza_in)
    /\ stanza_in.body.len = 32
    /\ IsCanonicalText(stanza_in.args[2], 33)
    /\ LET b == BytesOfText(stanza_in.args[2], 33)
       IN /\ b[1] \in {2, 3}
          /\ \A i \in 2..32 : b[i] = 0
          /\ b[33] < FieldPrime
          /\ b \notin ValidCompressedPoints
    /\ parse_out.kind = "SomeErr"

\* -------- C6
\* a thread whose wrap_file_key call has assigned the local of that statement
After(t, stage) ==
    LET order == <<"idle", "keygen", "ecdh", "salt", "hkdf", "aead", "returned",
                   "stanza", "parsed">>
        at(x) == CHOOSE i \in 1..Len(order) : order[i] = x
    IN pc[t] # "panic" /\ at(pc[t]) >= at(stage)

\* C6: the stanza made of the Recipient Line that wrap_file_key returned parses
\* back, by from_stanza, to a Recipient Line (not to not-mine, not to malformed)
\* with the same tag, the same ephemeral point bytes and the same 32-byte
\* encrypted_file_key.
C6_RoundTrip ==
    \A t \in Threads :
        pc[t] = "parsed" =>
            /\ reparsed[t].kind = "SomeOk"
            /\ reparsed[t].line.tag = line[t].tag
            /\ as_bytes(reparsed[t].line.epk_bytes) = as_bytes(line[t].epk_bytes)
            /\ reparsed[t].line.encrypted_file_key = line[t].encrypted_file_key
            /\ reparsed[t].line.encrypted_file_key.len = 32
            /\ Len(reparsed[t].line.tag) = 4
            /\ Len(as_bytes(reparsed[t].line.epk_bytes)) = 33

\* a call for the file key 0x00..0x0F whose stanza was parsed back
C6_Witness ==
    \E t \in Threads :
        /\ pc[t] = "parsed"
        /\ file_key = [i \in 1..16 |-> i - 1]
        /\ reparsed[t].kind = "SomeOk"
        /\ line[t].epk_bytes[1] \in {2, 3}

\* -------- C7
\* C7: the stanza made of a Recipient Line has the tag string STANZA_TAG, exactly
\* two arguments, the unpadded standard-alphabet base64 of the 4-byte tag (6
\* characters) and then of the 33-byte compressed point (44 characters), and the
\* raw 32-byte ciphertext as its body; the conversion never fails.
C7_StanzaLayout ==
    \A t \in Threads :
        After(t, "stanza") =>
            /\ wire[t].tag = STANZA_TAG
            /\ Len(wire[t].args) = 2
            /\ Len(wire[t].args[1]) = 6
            /\ Len(wire[t].args[2]) = 44
            /\ IsBase64Of(wire[t].args[1], line[t].tag)
            /\ IsBase64Of(wire[t].args[2], as_bytes(line[t].epk_bytes))
            /\ wire[t].body = line[t].encrypted_file_key
            /\ wire[t].body.len = 32

\* a stanza whose first argument holds '+' or '/', the symbols of 62 and 63
C7_Witness ==
    \E t \in Threads :
        /\ pc[t] = "stanza"
        /\ \E i \in 1..Len(wire[t].args[1]) : wire[t].args[1][i] \in {43, 47}

\* -------- C8
\* C8: across any interleaving of wrap_file_key calls (same file key, same
\* recipient) every call has an ephemeral key pair of its own, no two calls give
\* the same ephemeral point or the same ciphertext, and every derived key goes
\* into exactly one AEAD encryption.
C8_FreshPerCall ==
    /\ \A t, u \in Threads :
          t # u =>
             /\ (After(t, "keygen") /\ After(u, "keygen")) =>
                   /\ esk[t] # esk[u]
                   /\ as_bytes(epk_bytes[t]) # as_bytes(epk_bytes[u])
             /\ (After(t, "hkdf") /\ After(u, "hkdf")) => enc_key[t] # enc_key[u]
             /\ (After(t, "aead") /\ After(u, "aead")) =>
                   encrypted_file_key[t] # encrypted_file_key[u]
             /\ (After(t, "returned") /\ After(u, "returned")) =>
                   /\ as_bytes(line[t].epk_bytes) # as_bytes(line[u].epk_bytes)
                   /\ line[t].encrypted_file_key # line[u].encrypted_file_key
    /\ \A c, d \in aead_calls : c.key = d.key => c = d
    /\ \A t \in Threads :
          Cardinality({c \in aead_calls : c.by = t}) = IF After(t, "aead") THEN 1 ELSE 0
    /\ \A t \in Threads :
          After(t, "aead") =>
             Cardinality({c \in aead_calls : c.key = enc_key[t]}) = 1

\* two calls that have both returned
C8_Witness ==
    \E t, u \in Threads :
        /\ t # u
        /\ After(t, "returned")
        /\ After(u, "returned")
        /\ Cardinality(aead_calls) >= 2

\* -------- C9
\* C9: within a call the steps are ephemeral key generation, ECDH, salt, HKDF,
\* AEAD, in that order, on the same values: the ECDH is between this call's
\* ephemeral secret and the recipient's public key; the salt is this call's 33
\* compressed ephemeral bytes followed by the recipient's encoded point; HKDF
\* takes that salt, the label "piv-p256" and the shared secret; the AEAD seals
\* the file key under that key; the line carries the recipient's tag, that
\* ephemeral point and that ciphertext.
C9_WrapOrderAndBinding ==
    \A t \in Threads :
        /\ pc[t] # "panic"
        /\ IF After(t, "keygen")
           THEN /\ esk[t] \in 1..(GroupOrder - 1)
                /\ as_bytes(epk_bytes[t]) \in ValidCompressedPoints
                /\ as_bytes(epk_bytes[t]) = to_encoded_point(ScalarMul(esk[t], Generator), TRUE)
           ELSE esk[t] = 0 /\ epk_bytes[t] = NoBytes
        /\ IF After(t, "ecdh")
           THEN /\ Len(shared_secret[t]) = 32
                /\ shared_secret[t] = FieldBytes(ScalarMul(esk[t], pk)[1])
                \* the recipient derives the same secret from the ephemeral point
                /\ \A d \in 1..(GroupOrder - 1) :
                      ScalarMul(d, Generator) = pk =>
                         shared_secret[t] =
                            FieldBytes(ScalarMul(d, ScalarMul(esk[t], Generator))[1])
           ELSE shared_secret[t] = NoBytes
        /\ IF After(t, "salt")
           THEN /\ Len(salt[t]) = 66
                /\ SubSeq(salt[t], 1, 33) = as_bytes(epk_bytes[t])
                /\ SubSeq(salt[t], 34, 66) = to_encoded_point(pk, TRUE)
           ELSE salt[t] = NoBytes
        /\ IF After(t, "hkdf")
           THEN /\ enc_key[t].salt = salt[t]
                /\ enc_key[t].info = <<112, 105, 118, 45, 112, 50, 53, 54>>
                /\ enc_key[t].ikm = shared_secret[t]
           ELSE enc_key[t] = NoKey
        /\ IF After(t, "aead")
           THEN /\ encrypted_file_key[t].len = 32
                /\ encrypted_file_key[t].val = <<enc_key[t], file_key>>
                /\ [by |-> t, key |-> enc_key[t], plaintext |-> file_key] \in aead_calls
           ELSE encrypted_file_key[t] = RawBytes(NoBytes)
        /\ IF After(t, "returned")
           THEN /\ line[t].tag = Recipient_tag(pk)
                /\ line[t].epk_bytes = epk_bytes[t]
                /\ line[t].encrypted_file_key = encrypted_file_key[t]
           ELSE line[t] = NoLine

\* a call that has returned its line
C9_Witness ==
    \E t \in Threads :
        /\ pc[t] = "returned"
        /\ line[t].tag = Recipient_tag(pk)
        /\ SubSeq(salt[t], 1, 33) = as_bytes(line[t].epk_bytes)

\* -------- C10
\* an EphemeralKeyBytes value that holds the 33-byte compressed encoding of a point
IsValidKeyBytes(v) == Len(as_bytes(v)) = 33 /\ as_bytes(v) \in ValidCompressedPoints

\* C10: every EphemeralKeyBytes value, built by from_bytes or by
\* from_public_key, held by a line that from_stanza or wrap_file_key returned,
\* is the 33-byte compressed encoding of a point of the curve, and decompress()
\* of it does not panic and gives that point.
C10_KeyBytesAlwaysDecompress ==
    /\ ekb.some => IsValidKeyBytes(ekb.val)
    /\ ekb_point # NotCalled =>
          /\ ekb_point.kind = "Ok"
          /\ \E P \in CurvePoints :
                /\ ekb_point.point = to_encoded_point(P, FALSE)
                /\ as_bytes(ekb.val) = to_encoded_point(P, TRUE)
    /\ parse_out.kind = "SomeOk" => IsValidKeyBytes(parse_out.line.epk_bytes)
    /\ \A t \in Threads :
          /\ After(t, "keygen") =>
                IsValidKeyBytes(epk_bytes[t]) /\ decompress(epk_bytes[t]).kind = "Ok"
          /\ After(t, "returned") => IsValidKeyBytes(line[t].epk_bytes)
          /\ (pc[t] = "parsed" /\ reparsed[t].kind = "SomeOk") =>
                IsValidKeyBytes(reparsed[t].line.epk_bytes)

\* decompress() was called on a value that from_bytes built
C10_Witness ==
    /\ Len(ekb_in) = 33
    /\ ekb.some
    /\ ekb_point # NotCalled
    /\ ekb_point.kind = "Ok"

====
